---- MODULE Spec2Model ----
(***************************************************************************)
(* Punctuality pipeline of warsaw_bus_analysis                            *)
(* (src/analyse/prepare_punctionality.py, src/analyse/tools.py), the      *)
(* speed rows of src/analyse/prepare_speed.py, and the requests,          *)
(* validation, download loop and timetable workers of                     *)
(* src/warsaw_api/warsaw_api.py.                                          *)
(*                                                                         *)
(* Representation choices:                                                 *)
(*  - a string that the code indexes, compares or parses (a line           *)
(*    identifier) is a sequence of one-character strings;                  *)
(*  - a time string "HH:MM:SS" is the tuple <<hh, mm, ss>>; a bus          *)
(*    timestamp "YYYY-MM-DD HH:MM:SS" is <<date, hh, mm, ss>>, and a       *)
(*    timestamp that strptime cannot parse is the empty tuple;             *)
(*  - coordinates are points of a local grid whose unit is one metre, and  *)
(*    distances are whole metres, so the code's 0.01 km is 10;             *)
(*  - a JSON object whose key order the code iterates (the stops of a      *)
(*    brigade) is a sequence of <<key, value>> pairs;                      *)
(*  - a velocity is an exact fraction <<numerator, denominator>>.          *)
(***************************************************************************)
EXTENDS Integers, Sequences, FiniteSets, TLC

VARIABLES
    pc,             \* prepare_data: "run", "done" or "aborted"
    i,              \* prepare_data: index of the snapshot file being processed
    n,              \* prepare_data: fixes of the current file already processed
    schedule,       \* prepare_data: the timetable cache (line -> timetable)
    data_to_save,   \* the best-record table: bus_id -> stop -> tuple
    reads,          \* number of times each line's timetable file was opened
    file_to_save,   \* lines written to the output file
    bus,            \* the loop variable: the fix of the last loop iteration
    branch,         \* where the last loop iteration ended
    match,          \* closest_stop, delta_dist, min_time of the last matcher call
    obs,            \* reducer harness: the observations to fold, in order
    k,              \* reducer harness: observations folded so far
    m_sched,        \* matcher harness: the schedule argument
    line,           \* tram-filter harness: the line identifier
    verdict,        \* tram-filter harness: result of the filter
    vel_args,       \* calculate_velocity: the arguments of the call
    velocity,       \* calculate_velocity: the value returned
    cur_data,       \* Velocity.__process_data: data, in the order of its keys
    prev_data,      \* Velocity.__process_data: prev_data
    speed_rows,     \* Velocity.__process_data: rows written to file_to_save
    now,            \* WarsawAPI.__validate_buses_data: datetime.now()
    api_response,   \* WarsawAPI.__validate_buses_data: the list it is given
    response,       \* WarsawAPI.__validate_buses_data: the list it returns
    index,          \* download_buses_location_by_time: the request counter
    files,          \* download_buses_location_by_time: files written so far
    returned,       \* download_buses_location_by_time: the value returned
    is_schedule,    \* __get_data_from_api: the is_schedule argument
    error_counter,  \* __get_data_from_api: error_counter
    attempts,       \* __get_data_from_api: iterations of "while True" begun
    api_local,      \* __get_data_from_api: what the local "response" holds
    http_raised,    \* __get_data_from_api: the last requests.get raised
    http_errors,    \* __get_data_from_api: RequestExceptions raised so far
    routes,         \* download_schedule: the lines of routes.json
    w_pc,           \* download_schedule: position of the worker of each line
    lines_dir,      \* download_schedule: the directory bus_stops/lines exists
    line_files      \* download_schedule: the files of bus_stops/lines

vars == <<pc, i, n, schedule, data_to_save, reads, file_to_save, bus, branch,
          match, obs, k, m_sched, line, verdict, vel_args, velocity, cur_data,
          prev_data, speed_rows, now, api_response, response, index, files,
          returned, is_schedule, error_counter, attempts, api_local,
          http_raised, http_errors, routes, w_pc, lines_dir, line_files>>

\* The variables of __get_data_from_api and download_schedule.
netVars == <<is_schedule, error_counter, attempts, api_local, http_raised,
             http_errors, routes, w_pc, lines_dir, line_files>>

\* The variables of calculate_velocity, Velocity and WarsawAPI.
toolVars == <<vel_args, velocity, cur_data, prev_data, speed_rows, now,
              api_response, response, index, files, returned, netVars>>

None == "None"

----------------------------------------------------------------------------
(* Bounds of the model *)

MaxStops == 3
MaxObs == 3
MaxLineLen == 4
MaxFiles == 2
MaxFixes == 2
MaxBuses == 2
MaxRequests == 4

----------------------------------------------------------------------------
(* tools.py *)

\* Integer square root: the metric is rounded down to whole metres.
ISqrt(x) == CHOOSE r \in 0..x : r * r <= x /\ (r + 1) * (r + 1) > x

\* calculate_distance (Haversine) on the local metre grid: the great-circle
\* distance between two points a few metres apart is their planar distance.
calculate_distance(lat1, lon1, lat2, lon2) ==
    ISqrt((lat2 - lat1) * (lat2 - lat1) + (lon2 - lon1) * (lon2 - lon1))

get_busID(vehicle_number, bus_line, brigade) == <<vehicle_number, bus_line, brigade>>

----------------------------------------------------------------------------
(* datetime *)

\* An exception raised where the code computes a number is the value Raised;
\* where it computes a time string, the empty tuple.
Raised == -1
NoTime == <<>>

\* datetime.strptime(t, "%H:%M:%S"): seconds since midnight, or Raised
\* (ValueError) when a field is out of range.
strptime_HMS(t) ==
    IF Len(t) = 3 /\ t[1] \in 0..23 /\ t[2] \in 0..59 /\ t[3] \in 0..59
    THEN t[1] * 3600 + t[2] * 60 + t[3]
    ELSE Raised

\* datetime.strptime(t, "%Y-%m-%d %H:%M:%S").strftime("%H:%M:%S"): the
\* time of day of a timestamp (the date is dropped), or NoTime (ValueError).
bus_time_of(t) ==
    IF Len(t) = 4 /\ t[2] \in 0..23 /\ t[3] \in 0..59 /\ t[4] \in 0..59
    THEN <<t[2], t[3], t[4]>>
    ELSE NoTime

\* (a - b).seconds of a timedelta: the seconds field is normalised to
\* 0..86399 (a negative difference has days = -1).
timedelta_seconds(a, b) == (a - b) % 86400

abs(x) == IF x < 0 THEN -x ELSE x

min(a, b) == IF b < a THEN b ELSE a

----------------------------------------------------------------------------
(* tools.py: calculate_velocity *)

\* A velocity in km/h is a fraction <<numerator, denominator>> in lowest
\* terms with a positive denominator (distances are whole metres, times whole
\* seconds), so that equal velocities are equal values.
RECURSIVE GCD(_, _)
GCD(a, b) == IF b = 0 THEN a ELSE GCD(b, a % b)

Rat(nm, dn) ==
    LET g == GCD(abs(nm), abs(dn))
        sg == IF dn < 0 THEN -1 ELSE 1
    IN  <<(sg * nm) \div g, (sg * dn) \div g>>

MetresPerKm == 1000
SecondsPerHour == 3600      \* time = time / 3600
VelocityLimit == 90         \* if velocity > 90
VelocityClamp == 50         \* velocity = 50

\* exceeds with the limit included (>= for >).
exceeds_ge(v, limit) == v[1] >= limit * v[2]

\* velocity > 90
exceeds(v, limit) == v[1] > limit * v[2]

\* calculate_velocity(lat1, lon1, lat2, lon2, time): distance in km divided
\* by time in hours, 0 when time == 0, 50 when the quotient is above 90.
calculate_velocity(lat1, lon1, lat2, lon2, time) ==
    LET distance == calculate_distance(lat1, lon1, lat2, lon2)
        v == IF time = 0 THEN Rat(0, 1)
             ELSE Rat(distance * SecondsPerHour, MetresPerKm * time)
    IN  IF exceeds(v, VelocityLimit) THEN Rat(VelocityClamp, 1) ELSE v

----------------------------------------------------------------------------
(* Punctionality.__find_closest_stop *)

DeltaDistInit == 10     \* delta_dist = 0.01 km, in metres
MinTimeInit == 3600     \* min_time = 3600

\* "Fix date from schedule (like 25:00:00 -> 01:00:00)"
fix_stop_time(stop_time) ==
    IF stop_time[1] >= 24
    THEN <<stop_time[1] - 24, stop_time[2], stop_time[3]>>
    ELSE stop_time

\* diff = abs((strptime(stop_time) - strptime(bus_time)).seconds)
diff_seconds(stop_time, bus_time) ==
    abs(timedelta_seconds(strptime_HMS(fix_stop_time(stop_time)),
                          strptime_HMS(bus_time)))

\* The inner loop over the scheduled times of one stop, from index j on:
\* min_time = min(min_time, diff); Raised when a scheduled time does not parse.
RECURSIVE scan_times(_, _, _, _)
scan_times(times, j, bus_time, min_time) ==
    IF j > Len(times) THEN min_time
    ELSE IF strptime_HMS(fix_stop_time(times[j])) = Raised
         THEN Raised
         ELSE scan_times(times, j + 1, bus_time,
                         min(min_time, diff_seconds(times[j], bus_time)))

\* admits with the threshold included (<= for <).
admits_le(distance, delta_dist) == distance <= delta_dist

\* The condition that admits a candidate stop: distance < delta_dist.
admits(distance, delta_dist) == distance < delta_dist

\* A stop of the timetable that is not in the registry raises instead of
\* being skipped.
on_missing_stop_raises(acc) == [acc EXCEPT !.raised = TRUE]

\* if stop not in bus_stops: continue
on_missing_stop(acc) == acc

\* One iteration of the loop over the stops of the run. min_time is set
\* once, before the loop, and every admitted stop's scan starts from the
\* value the previous stops left in it.
scan_stop(acc, entry, b, bus_stops) ==
    LET stop == entry[1]
        times == entry[2]
    IN  IF acc.raised THEN acc
        ELSE IF stop \notin DOMAIN bus_stops THEN on_missing_stop(acc)
        ELSE LET distance == calculate_distance(b.Lat, b.Lon,
                                 bus_stops[stop].szer_geo, bus_stops[stop].dlug_geo)
             IN  IF ~admits(distance, acc.delta_dist) THEN acc
                 ELSE IF bus_time_of(b.Time) = NoTime
                      THEN [acc EXCEPT !.raised = TRUE]
                      ELSE LET mt == scan_times(times, 1, bus_time_of(b.Time),
                                                acc.min_time)
                           IN  IF mt = Raised THEN [acc EXCEPT !.raised = TRUE]
                               ELSE IF mt >= MinTimeInit
                                    THEN [acc EXCEPT !.min_time = mt]
                                    ELSE [acc EXCEPT !.min_time = mt,
                                                     !.delta_dist = distance,
                                                     !.closest_stop = stop]

RECURSIVE scan_stops(_, _, _, _, _)
scan_stops(acc, stops, j, b, bus_stops) ==
    IF j > Len(stops) THEN acc
    ELSE scan_stops(scan_stop(acc, stops[j], b, bus_stops), stops, j + 1, b, bus_stops)

\* __find_closest_stop(bus, schedule, bus_stops): the returned tuple
\* (closest_stop, delta_dist, min_time) as a record; raised = TRUE when the
\* call ends with an exception instead of returning.
find_closest_stop(b, sched, bus_stops) ==
    scan_stops([delta_dist |-> DeltaDistInit, closest_stop |-> None,
                min_time |-> MinTimeInit, raised |-> FALSE],
               sched[b.Lines][b.Brigade], 1, b, bus_stops)

----------------------------------------------------------------------------
(* Punctionality.__update_data_to_save *)

\* overwrites keeping the larger deviation (> for <).
overwrites_gt(time, stored) == time > stored[1]

\* overwrites on every observation (the comparison dropped).
overwrites_always(time, stored) == TRUE

\* overwrites on an equal deviation too (<= for <).
overwrites_le(time, stored) == time <= stored[1]

\* The comparison that lets a new observation overwrite a stored record:
\* time < data_to_save[bus_id][closest_stop][0].
overwrites(time, stored) == time < stored[1]

\* __update_data_to_save overwriting the deviation alone: the distance and
\* the position of the stored record stay those of the earlier fix.
update_data_to_save_time_only(data, bus_id, closest_stop, b, time, delta_dist) ==
    LET d1 == IF bus_id \notin DOMAIN data THEN data @@ (bus_id :> <<>>) ELSE data
        rec == <<time, delta_dist, b.Lat, b.Lon>>
    IN  IF closest_stop \notin DOMAIN d1[bus_id]
        THEN [d1 EXCEPT ![bus_id] = @ @@ (closest_stop :> rec)]
        ELSE IF overwrites(time, d1[bus_id][closest_stop])
             THEN [d1 EXCEPT ![bus_id][closest_stop][1] = time]
             ELSE d1

\* __update_data_to_save(data_to_save, bus_id, closest_stop, bus, time,
\* delta_dist): the table it returns.
update_data_to_save(data, bus_id, closest_stop, b, time, delta_dist) ==
    LET d1 == IF bus_id \notin DOMAIN data THEN data @@ (bus_id :> <<>>) ELSE data
        rec == <<time, delta_dist, b.Lat, b.Lon>>
    IN  IF closest_stop \notin DOMAIN d1[bus_id]
        THEN [d1 EXCEPT ![bus_id] = @ @@ (closest_stop :> rec)]
        ELSE IF overwrites(time, d1[bus_id][closest_stop])
             THEN [d1 EXCEPT ![bus_id][closest_stop] = rec]
             ELSE d1

----------------------------------------------------------------------------
(* Punctionality.prepare_data: the tram filter *)

\* ord(c) of the characters a line identifier is made of here.
Ord(c) ==
    CASE c = "-" -> 45
      [] c = "0" -> 48 [] c = "1" -> 49 [] c = "2" -> 50 [] c = "3" -> 51
      [] c = "4" -> 52 [] c = "5" -> 53 [] c = "6" -> 54 [] c = "7" -> 55
      [] c = "8" -> 56 [] c = "9" -> 57
      [] c = "A" -> 65 [] c = "N" -> 78

Digits == {"0", "1", "2", "3", "4", "5", "6", "7", "8", "9"}

\* Python's a < b on strings: lexicographic by code point, a proper prefix
\* being smaller.
RECURSIVE str_lt(_, _)
str_lt(a, b) ==
    IF b = <<>> THEN FALSE
    ELSE IF a = <<>> THEN TRUE
    ELSE IF Ord(Head(a)) # Ord(Head(b)) THEN Ord(Head(a)) < Ord(Head(b))
    ELSE str_lt(Tail(a), Tail(b))

\* The value of a non-empty string of digits.
RECURSIVE digits_value(_)
digits_value(s) ==
    IF s = <<>> THEN 0
    ELSE digits_value(SubSeq(s, 1, Len(s) - 1)) * 10 + (Ord(s[Len(s)]) - 48)

all_digits(s) == s # <<>> /\ \A j \in 1..Len(s) : s[j] \in Digits

\* int(s) succeeds on an optional sign followed by digits (over the
\* characters of Ord) and raises ValueError on anything else.
int_ok(s) == all_digits(s) \/ (s # <<>> /\ Head(s) = "-" /\ all_digits(Tail(s)))

int_value(s) == IF Head(s) = "-" THEN 0 - digits_value(Tail(s)) ELSE digits_value(s)

Str999 == <<"9", "9", "9">>
TramLimit == 100

\* if bus["Lines"] < "999": if int(bus["Lines"]) < 100: continue
\* "skip" (continue), "keep" (the loop body goes on) or "raise" (ValueError).
tram_filter(bus_line) ==
    IF str_lt(bus_line, Str999)
    THEN IF ~int_ok(bus_line) THEN "raise"
         ELSE IF int_value(bus_line) < TramLimit THEN "skip" ELSE "keep"
    ELSE "keep"

----------------------------------------------------------------------------
(* The input files of a run *)

L042 == <<"0", "4", "2">>
L180 == <<"1", "8", "0">>
L213 == <<"2", "1", "3">>
L1A == <<"1", "A">>
LN44 == <<"N", "4", "4">>

Date == "2024-02-16"

\* The stop registry (bus_stops.json): stop -> coordinates. Stop "4" of the
\* timetables is not in it.
BusStops ==
    ("1" :> [szer_geo |-> 0, dlug_geo |-> 0]) @@
    ("2" :> [szer_geo |-> 6, dlug_geo |-> 0]) @@
    ("3" :> [szer_geo |-> 0, dlug_geo |-> 10])

\* The timetable files (lines/<line>.json): brigade -> stop -> times, the
\* stops in the order of the file. There is no file for line 213.
ScheduleFiles ==
    (L180 :> ("1" :> << <<"4", << <<15, 25, 0>> >> >>,
                        <<"2", << <<15, 30, 0>>, <<16, 30, 0>> >> >>,
                        <<"1", << <<12, 0, 0>>, <<13, 0, 0>> >> >> >>)) @@
    (LN44 :> ("1" :> << <<"1", << <<25, 0, 0>>, <<15, 40, 0>> >> >>,
                        <<"3", << <<15, 30, 0>> >> >> >>))

\* The fixes a snapshot file may hold: a tram, a line identifier that is
\* no number, a line without a timetable file, a brigade that is not in the
\* timetable, and buses of the lines 180 and N44 at a stop (Lat 0), between
\* two stops (Lat 3) or far from every stop (Lat 50), with a timestamp that
\* parses or does not (the empty tuple).
Fix(v, l, b, lat, t) ==
    [VehicleNumber |-> v, Lines |-> l, Brigade |-> b, Lat |-> lat, Lon |-> 0,
     Time |-> t]

T1525 == <<Date, 15, 25, 0>>
T1528 == <<Date, 15, 28, 0>>

RunBuses ==
    {Fix("1000", L042, "1", 0, T1525), Fix("1000", L1A, "1", 0, T1525),
     Fix("1000", L213, "9", 0, T1525), Fix("1000", L180, "9", 0, T1525),
     Fix("1000", L180, "1", 50, T1525), Fix("1000", L180, "1", 50, <<>>),
     Fix("1000", L180, "1", 0, <<>>), Fix("1000", LN44, "1", 0, T1525)}
    \cup {Fix("1000", L180, "1", lat, t) : lat \in {0, 3}, t \in {T1525, T1528}}
    \cup {Fix("1001", L180, "1", 0, t) : t \in {T1525, T1528}}

----------------------------------------------------------------------------
(* Punctionality.prepare_data *)

NoBus == [VehicleNumber |-> None, Lines |-> <<>>, Brigade |-> None,
          Lat |-> 0, Lon |-> 0, Time |-> <<>>]
NoMatch == [delta_dist |-> DeltaDistInit, closest_stop |-> None,
            min_time |-> MinTimeInit, raised |-> FALSE]
NoFile == [header |-> FALSE, rows |-> {}]

\* __load_schedule(schedule, path_schedule, bus_line): the cache it returns;
\* the file is opened only when the line is not in the cache.
load_schedule(sched, bus_line) ==
    IF bus_line \notin DOMAIN sched
    THEN sched @@ (bus_line :> ScheduleFiles[bus_line])
    ELSE sched

\* __save_data_to_file writing one row per bus_id (its first stop only).
save_rows_one_per_bus(data) ==
    {LET stop == CHOOSE st \in DOMAIN data[id] : TRUE
     IN  <<id[1], id[2], id[3], stop, data[id][stop][1], data[id][stop][2],
           data[id][stop][3], data[id][stop][4]>> : id \in DOMAIN data}

\* The rows __save_data_to_file writes, one per bus_id and stop.
save_rows(data) ==
    UNION {{<<id[1], id[2], id[3], stop, data[id][stop][1], data[id][stop][2],
              data[id][stop][3], data[id][stop][4]>> : stop \in DOMAIN data[id]} :
           id \in DOMAIN data}

\* A missing timetable file skipped (the loop goes on with the next fix).
on_missing_file_continue == "file"

\* open() of a timetable file that does not exist raises FileNotFoundError;
\* nothing catches it, so prepare_data ends there.
on_missing_file == "aborted"

\* The reducer called whatever the matcher returned.
no_match_never(m) == FALSE

\* if closest_stop is None: continue
no_match(m) == m.closest_stop = None

harnessVars == <<obs, k, m_sched, line, verdict, toolVars>>

\* No request to the API and no download of the timetables has begun.
NetIdle ==
    /\ is_schedule = FALSE /\ error_counter = 0 /\ attempts = 0
    /\ api_local = "unbound" /\ http_raised = FALSE /\ http_errors = 0
    /\ routes = {} /\ w_pc = <<>> /\ lines_dir = FALSE /\ line_files = <<>>

\* Nothing of calculate_velocity, Velocity or the download of the fixes has
\* run.
CalcIdle ==
    /\ vel_args = <<>> /\ velocity = <<>>
    /\ cur_data = <<>> /\ prev_data = <<>> /\ speed_rows = <<>>
    /\ now = <<>> /\ api_response = <<>> /\ response = <<>>
    /\ index = 0 /\ files = <<>> /\ returned = 0

\* Nothing of calculate_velocity, Velocity or WarsawAPI has run.
ToolsIdle == CalcIdle /\ NetIdle

\* The state after prepare_data has written the header, set data_to_save = {}
\* and loaded the stop registry.
Init ==
    /\ pc = "between"
    /\ i = 0
    /\ n = 0
    /\ schedule = <<>>
    /\ data_to_save = <<>>
    /\ reads = [l \in DOMAIN ScheduleFiles |-> 0]
    /\ file_to_save = [header |-> TRUE, rows |-> {}]
    /\ bus = NoBus
    /\ branch = "start"
    /\ match = NoMatch
    /\ obs = <<>>
    /\ k = 0
    /\ m_sched = <<>>
    /\ line = <<>>
    /\ verdict = "start"
    /\ ToolsIdle

\* for i in range(count_files): data = load(i); schedule = {}
OpenFile ==
    /\ pc = "between"
    /\ i < MaxFiles
    /\ pc' = "file"
    /\ n' = 0
    /\ schedule' = <<>>
    /\ UNCHANGED <<i, data_to_save, reads, file_to_save, bus, branch, match>>
    /\ UNCHANGED harnessVars

\* One iteration of "for bus in data", from the tram filter to the reducer.
ProcessFix ==
    /\ pc = "file"
    /\ n < MaxFixes
    /\ \E b \in RunBuses :
        /\ bus' = b
        /\ n' = n + 1
        /\ IF tram_filter(b.Lines) = "skip"
           THEN /\ branch' = "tram"
                /\ UNCHANGED <<pc, schedule, reads, match, data_to_save>>
           ELSE IF tram_filter(b.Lines) = "raise"
           THEN /\ branch' = "raise_int"
                /\ pc' = "aborted"
                /\ UNCHANGED <<schedule, reads, match, data_to_save>>
           ELSE IF b.Lines \notin DOMAIN schedule /\ b.Lines \notin DOMAIN ScheduleFiles
           THEN /\ branch' = "raise_open"
                /\ pc' = on_missing_file
                /\ UNCHANGED <<schedule, reads, match, data_to_save>>
           ELSE /\ schedule' = load_schedule(schedule, b.Lines)
                /\ reads' = IF b.Lines \notin DOMAIN schedule
                            THEN [reads EXCEPT ![b.Lines] = @ + 1]
                            ELSE reads
                /\ IF b.Brigade \notin DOMAIN schedule'[b.Lines]
                   THEN /\ branch' = "no_brigade"
                        /\ UNCHANGED <<pc, match, data_to_save>>
                   ELSE /\ match' = find_closest_stop(b, schedule', BusStops)
                        /\ IF match'.raised
                           THEN /\ branch' = "raise_time"
                                /\ pc' = "aborted"
                                /\ UNCHANGED data_to_save
                           ELSE IF no_match(match')
                           THEN /\ branch' = "no_match"
                                /\ UNCHANGED <<pc, data_to_save>>
                           ELSE /\ branch' = "reduced"
                                /\ data_to_save' =
                                     update_data_to_save(data_to_save,
                                         get_busID(b.VehicleNumber, b.Lines, b.Brigade),
                                         match'.closest_stop, b, match'.min_time,
                                         match'.delta_dist)
                                /\ UNCHANGED pc
    /\ UNCHANGED <<i, file_to_save>>
    /\ UNCHANGED harnessVars

\* The end of "for bus in data": print(f"File {i} of ... done").
EndFile ==
    /\ pc = "file"
    /\ pc' = "between"
    /\ i' = i + 1
    /\ UNCHANGED <<n, schedule, data_to_save, reads, file_to_save, bus, branch, match>>
    /\ UNCHANGED harnessVars

\* After the last file: __save_data_to_file and close.
Finish ==
    /\ pc = "between"
    /\ pc' = "done"
    /\ file_to_save' = [file_to_save EXCEPT !.rows = save_rows(data_to_save)]
    /\ UNCHANGED <<i, n, schedule, data_to_save, reads, bus, branch, match>>
    /\ UNCHANGED harnessVars

Next == OpenFile \/ ProcessFix \/ EndFile \/ Finish

Spec == Init /\ [][Next]_vars

----------------------------------------------------------------------------
(* __find_closest_stop on its own: one call on drawn arguments *)

L123 == <<"1", "2", "3">>

\* Scheduled times of one stop, as the timetable files hold them.
TimeLists ==
    { << <<12, 0, 0>>, <<13, 0, 0>> >>, << <<15, 30, 0>>, <<16, 30, 0>> >>,
      << <<25, 0, 0>> >>, << <<15, 40, 0>> >> }

StopIds == {"1", "2", "3", "4"}

\* The stops of one brigade: up to MaxStops entries <<stop, times>>, no stop
\* twice (the keys of a JSON object).
StopSeqs ==
    UNION {{q \in [1..len -> StopIds \X TimeLists] :
               \A a, b \in 1..len : a # b => q[a][1] # q[b][1]} :
           len \in 0..MaxStops}

MatchBuses ==
    [VehicleNumber : {"1234"}, Lines : {L123}, Brigade : {"456"},
     Lat : {0, 3, 6, 50}, Lon : {0, 8},
     Time : {<<Date, 15, 25, 0>>, <<Date, 1, 0, 5>>, <<Date, 14, 30, 0>>, <<>>}]

InitMatch ==
    /\ bus \in {b \in MatchBuses : b.Lon = 8 <=> b.Lat = 6}
    /\ m_sched \in {(L123 :> ("456" :> q)) : q \in StopSeqs}
    /\ match = NoMatch
    /\ branch = "start"
    /\ pc = "between" /\ i = 0 /\ n = 0 /\ schedule = <<>> /\ data_to_save = <<>>
    /\ reads = [l \in DOMAIN ScheduleFiles |-> 0] /\ file_to_save = NoFile
    /\ obs = <<>> /\ k = 0 /\ line = <<>> /\ verdict = "start"
    /\ ToolsIdle

FindClosestStop ==
    /\ branch = "start"
    /\ match' = find_closest_stop(bus, m_sched, BusStops)
    /\ branch' = IF match'.raised THEN "raised" ELSE "returned"
    /\ UNCHANGED <<pc, i, n, schedule, data_to_save, reads, file_to_save, bus,
                   obs, k, m_sched, line, verdict>>
    /\ UNCHANGED toolVars

SpecMatch == InitMatch /\ [][FindClosestStop]_vars

----------------------------------------------------------------------------
(* __update_data_to_save on its own: a sequence of calls on drawn arguments *)

Observations ==
    [bus_id : {get_busID("1000", L180, "1"), get_busID("1001", L180, "1")},
     closest_stop : {"1", "2"}, time : {120, 400},
     bus : {[Lat |-> 0, Lon |-> 0], [Lat |-> 3, Lon |-> 0]},
     delta_dist : {0, 3}]

InitFold ==
    /\ obs \in UNION {[1..len -> {o \in Observations : o.delta_dist = o.bus.Lat}] :
                      len \in 0..MaxObs}
    /\ k = 0
    /\ data_to_save = <<>>
    /\ pc = "between" /\ i = 0 /\ n = 0 /\ schedule = <<>>
    /\ reads = [l \in DOMAIN ScheduleFiles |-> 0] /\ file_to_save = NoFile
    /\ bus = NoBus /\ branch = "start" /\ match = NoMatch
    /\ m_sched = <<>> /\ line = <<>> /\ verdict = "start"
    /\ ToolsIdle

UpdateDataToSave ==
    /\ k < Len(obs)
    /\ k' = k + 1
    /\ data_to_save' = update_data_to_save(data_to_save, obs[k + 1].bus_id,
                           obs[k + 1].closest_stop, obs[k + 1].bus, obs[k + 1].time,
                           obs[k + 1].delta_dist)
    /\ UNCHANGED <<pc, i, n, schedule, reads, file_to_save, bus, branch, match,
                   obs, m_sched, line, verdict>>
    /\ UNCHANGED toolVars

SpecFold == InitFold /\ [][UpdateDataToSave]_vars

----------------------------------------------------------------------------
(* The tram filter on its own: one evaluation on a drawn line identifier *)

\* Line identifiers: up to MaxLineLen digits and letters.
LineChars == {"0", "1", "2", "4", "7", "9", "N"}

LineIds == UNION {[1..len -> LineChars] : len \in 1..MaxLineLen}

InitTram ==
    /\ line \in LineIds
    /\ verdict = "start"
    /\ pc = "between" /\ i = 0 /\ n = 0 /\ schedule = <<>> /\ data_to_save = <<>>
    /\ reads = [l \in DOMAIN ScheduleFiles |-> 0] /\ file_to_save = NoFile
    /\ bus = NoBus /\ branch = "start" /\ match = NoMatch
    /\ obs = <<>> /\ k = 0 /\ m_sched = <<>>
    /\ ToolsIdle

TramFilter ==
    /\ verdict = "start"
    /\ verdict' = tram_filter(line)
    /\ UNCHANGED <<pc, i, n, schedule, data_to_save, reads, file_to_save, bus,
                   branch, match, obs, k, m_sched, line>>
    /\ UNCHANGED toolVars

SpecTram == InitTram /\ [][TramFilter]_vars

----------------------------------------------------------------------------
(* calculate_velocity on its own: one call on drawn arguments *)

\* Nothing of prepare_data or of its parts has run.
PipelineIdle ==
    /\ pc = "between" /\ i = 0 /\ n = 0 /\ schedule = <<>> /\ data_to_save = <<>>
    /\ reads = [l \in DOMAIN ScheduleFiles |-> 0] /\ file_to_save = NoFile
    /\ bus = NoBus /\ match = NoMatch
    /\ obs = <<>> /\ k = 0 /\ m_sched = <<>> /\ line = <<>> /\ verdict = "start"

\* Two fixes up to 100 m apart and an elapsed time that is negative, zero or
\* positive; 25 m in 1 s and 50 m in 2 s are 90 km/h.
VelocityArgs ==
    [lat1 : {0, 3, 25, 26, 50, 100}, lon1 : {0}, lat2 : {0, 25}, lon2 : {0},
     time : {-60, -1, 0, 1, 2, 60}]

InitVelocity ==
    /\ vel_args \in VelocityArgs
    /\ velocity = <<>>
    /\ branch = "start"
    /\ PipelineIdle
    /\ NetIdle
    /\ cur_data = <<>> /\ prev_data = <<>> /\ speed_rows = <<>>
    /\ now = <<>> /\ api_response = <<>> /\ response = <<>>
    /\ index = 0 /\ files = <<>> /\ returned = 0

CalculateVelocity ==
    /\ branch = "start"
    /\ velocity' = calculate_velocity(vel_args.lat1, vel_args.lon1, vel_args.lat2,
                                      vel_args.lon2, vel_args.time)
    /\ branch' = "returned"
    /\ UNCHANGED <<pc, i, n, schedule, data_to_save, reads, file_to_save, bus,
                   match, obs, k, m_sched, line, verdict, netVars>>
    /\ UNCHANGED <<vel_args, cur_data, prev_data, speed_rows, now, api_response,
                   response, index, files, returned>>

SpecVelocity == InitVelocity /\ [][CalculateVelocity]_vars

----------------------------------------------------------------------------
(* Velocity.__process_data on its own: one call on drawn snapshots *)

Yesterday == "2024-02-15"
Tomorrow == "2024-02-17"

DayNumber(d) == CASE d = Yesterday -> 0 [] d = Date -> 1 [] d = Tomorrow -> 2

\* datetime.strptime(t, "%Y-%m-%d %H:%M:%S"): the seconds since the
\* midnight that begins Yesterday, or Raised (ValueError).
strptime_YmdHMS(t) ==
    IF Len(t) = 4 /\ t[2] \in 0..23 /\ t[3] \in 0..59 /\ t[4] \in 0..59
    THEN DayNumber(t[1]) * 86400 + t[2] * 3600 + t[3] * 60 + t[4]
    ELSE Raised

\* A row is written for a velocity of zero too (>= for >).
positive_ge(v) == v[1] >= 0

\* velocity > 0
positive(v) == v[1] > 0

\* The loop "for bus in data" from entry j on: the rows written, and
\* raised = TRUE when a strptime of line 110 ends the call with ValueError.
RECURSIVE process_data(_, _, _, _)
process_data(data, j, prev, rows) ==
    IF j > Len(data) THEN [rows |-> rows, raised |-> FALSE]
    ELSE LET key == data[j][1]
             cur == data[j][2]
         IN  IF key \notin DOMAIN prev THEN process_data(data, j + 1, prev, rows)
             ELSE IF \/ strptime_YmdHMS(cur.Time) = Raised
                     \/ strptime_YmdHMS(prev[key].Time) = Raised
             THEN [rows |-> rows, raised |-> TRUE]
             ELSE LET delta_time == strptime_YmdHMS(cur.Time)
                                      - strptime_YmdHMS(prev[key].Time)
                      v == calculate_velocity(cur.Lat, cur.Lon, prev[key].Lat,
                                              prev[key].Lon, delta_time)
                  IN  IF positive(v)
                      THEN process_data(data, j + 1, prev,
                               Append(rows, <<key[2], v, cur.Lat, cur.Lon>>))
                      ELSE process_data(data, j + 1, prev, rows)

SpeedKeys ==
    {get_busID("1000", L180, "1"), get_busID("1001", L180, "2"),
     get_busID("1002", LN44, "1")}

\* The fix of a key after __change_format: a Time that does not parse is the
\* "0" put in for a fix without Time.
CurFixes == [Lat : {0, 25, 50}, Lon : {0}, Time : {<<Date, 10, 0, 1>>, <<>>}]

PrevFixes ==
    [Lat : {0}, Lon : {0},
     Time : {<<Date, 10, 0, 0>>, <<Date, 10, 0, 1>>, <<Date, 10, 0, 2>>, <<>>}]

\* A snapshot in the order of its keys: up to MaxBuses keys, none twice.
Snapshots ==
    UNION {{q \in [1..len -> SpeedKeys \X CurFixes] :
               \A a, b \in 1..len : a # b => q[a][1] # q[b][1]} :
           len \in 0..MaxBuses}

KeysOf(q) == {q[j][1] : j \in 1..Len(q)}

InitSpeed ==
    /\ cur_data \in Snapshots
    /\ prev_data \in UNION {[K -> PrevFixes] : K \in SUBSET KeysOf(cur_data)}
    /\ speed_rows = <<>>
    /\ branch = "start"
    /\ PipelineIdle
    /\ NetIdle
    /\ vel_args = <<>> /\ velocity = <<>>
    /\ now = <<>> /\ api_response = <<>> /\ response = <<>>
    /\ index = 0 /\ files = <<>> /\ returned = 0

ProcessData ==
    /\ branch = "start"
    /\ speed_rows' = process_data(cur_data, 1, prev_data, speed_rows).rows
    /\ branch' = IF process_data(cur_data, 1, prev_data, speed_rows).raised
                 THEN "raised" ELSE "returned"
    /\ UNCHANGED <<pc, i, n, schedule, data_to_save, reads, file_to_save, bus,
                   match, obs, k, m_sched, line, verdict, netVars>>
    /\ UNCHANGED <<vel_args, velocity, cur_data, prev_data, now, api_response,
                   response, index, files, returned>>

SpecSpeed == InitSpeed /\ [][ProcessData]_vars

----------------------------------------------------------------------------
(* WarsawAPI.__validate_buses_data on its own: one call on a drawn response *)

TIME_DELTA == 30

\* In a response of the API, Lon and Lat are degrees; here they are tenths
\* of a degree, so that 20 < Lon < 22 and 52 < Lat < 53 read as follows.
Deg == 10
LonMin == 20 * Deg
LonMax == 22 * Deg
LatMin == 52 * Deg
LatMax == 53 * Deg

\* response.remove(b): the list without the first element equal to b.
RECURSIVE remove_first(_, _)
remove_first(resp, b) ==
    IF resp = <<>> THEN resp
    ELSE IF Head(resp) = b THEN Tail(resp)
    ELSE <<Head(resp)>> \o remove_first(Tail(resp), b)

\* The loop "for bus in response.copy()" from element j of the copy on.
RECURSIVE validate_loop(_, _, _, _)
validate_loop(resp, copy, j, t_now) ==
    IF j > Len(copy) THEN resp
    ELSE LET b == copy[j]
             bus_time == strptime_YmdHMS(b.Time)
         IN  IF bus_time = Raised
             THEN validate_loop(remove_first(resp, b), copy, j + 1, t_now)
             ELSE IF timedelta_seconds(strptime_YmdHMS(t_now), bus_time) > TIME_DELTA
             THEN validate_loop(remove_first(resp, b), copy, j + 1, t_now)
             ELSE IF \/ ~(LonMin < b.Lon /\ b.Lon < LonMax)
                     \/ ~(LatMin < b.Lat /\ b.Lat < LatMax)
             THEN validate_loop(remove_first(resp, b), copy, j + 1, t_now)
             ELSE validate_loop(resp, copy, j + 1, t_now)

\* __validate_buses_data(response), with the value datetime.now() gives.
validate_buses_data(resp, t_now) == validate_loop(resp, resp, 1, t_now)

Noon == <<Date, 12, 0, 40>>

\* Timestamps of a response when now is Noon: now, 30 s and 31 s old, one day
\* and 10 s old, 5 s ahead, one day less 20 s ahead, and one that does not
\* parse.
ApiTimes ==
    {Noon, <<Date, 12, 0, 10>>, <<Date, 12, 0, 9>>, <<Yesterday, 12, 0, 30>>,
     <<Date, 12, 0, 45>>, <<Tomorrow, 12, 0, 20>>, <<>>}

\* Positions inside the area and on each of its four limits.
ApiPositions ==
    {<<21 * Deg + 2, 52 * Deg + 3>>, <<LonMin, 52 * Deg + 3>>,
     <<LonMax, 52 * Deg + 3>>, <<21 * Deg + 2, LatMin>>, <<21 * Deg + 2, LatMax>>}

ApiBuses == {[Time |-> t, Lon |-> q[1], Lat |-> q[2]] : t \in ApiTimes, q \in ApiPositions}

InitValidate ==
    /\ now = Noon
    /\ api_response \in UNION {[1..len -> ApiBuses] : len \in 0..MaxBuses}
    /\ response = <<>>
    /\ branch = "start"
    /\ PipelineIdle
    /\ NetIdle
    /\ vel_args = <<>> /\ velocity = <<>>
    /\ cur_data = <<>> /\ prev_data = <<>> /\ speed_rows = <<>>
    /\ index = 0 /\ files = <<>> /\ returned = 0

ValidateBusesData ==
    /\ branch = "start"
    /\ response' = validate_buses_data(api_response, now)
    /\ branch' = "returned"
    /\ UNCHANGED <<pc, i, n, schedule, data_to_save, reads, file_to_save, bus,
                   match, obs, k, m_sched, line, verdict, netVars>>
    /\ UNCHANGED <<vel_args, velocity, cur_data, prev_data, speed_rows, now,
                   api_response, index, files, returned>>

SpecValidate == InitValidate /\ [][ValidateBusesData]_vars

----------------------------------------------------------------------------
(* WarsawAPI.download_buses_location_by_time *)

\* f"{index}.json"
file_name(idx) == <<idx, ".json">>

\* What __get_buses_location may return: a validated list of fixes.
Responses ==
    {<<>>, <<[Time |-> Noon, Lon |-> 21 * Deg + 2, Lat |-> 52 * Deg + 3]>>,
     <<[Time |-> Noon, Lon |-> 21 * Deg + 2, Lat |-> 52 * Deg + 3],
       [Time |-> Noon, Lon |-> 21 * Deg + 5, Lat |-> 52 * Deg + 5]>>}

\* The state at "index = 0", the folder of the files just created.
InitDownload ==
    /\ index = 0
    /\ files = <<>>
    /\ returned = 0
    /\ branch = "loop"
    /\ PipelineIdle
    /\ NetIdle
    /\ vel_args = <<>> /\ velocity = <<>>
    /\ cur_data = <<>> /\ prev_data = <<>> /\ speed_rows = <<>>
    /\ now = <<>> /\ api_response = <<>> /\ response = <<>>

downloadFrame ==
    <<pc, i, n, schedule, data_to_save, reads, file_to_save, bus, match, obs, k,
      m_sched, line, verdict, vel_args, velocity, cur_data, prev_data, speed_rows,
      now, api_response, netVars>>

\* One iteration of "while datetime.now() < end_time" in which
\* __get_buses_location returns: the response is written to f"{index}.json"
\* and index is incremented.
Request ==
    /\ branch = "loop"
    /\ index < MaxRequests
    /\ \E resp \in Responses :
        /\ response' = resp
        /\ files' = [nm \in DOMAIN files \cup {file_name(index)} |->
                        IF nm = file_name(index) THEN resp ELSE files[nm]]
    /\ index' = index + 1
    /\ UNCHANGED <<branch, returned>>
    /\ UNCHANGED downloadFrame

\* An iteration in which __get_data_from_api raises ValueError (no valid
\* response in 50 tries): the call ends without returning.
RequestRaises ==
    /\ branch = "loop"
    /\ index < MaxRequests
    /\ branch' = "raised"
    /\ UNCHANGED <<index, files, returned, response>>
    /\ UNCHANGED downloadFrame

\* datetime.now() >= end_time: return index + 1
Return ==
    /\ branch = "loop"
    /\ returned' = index + 1
    /\ branch' = "returned"
    /\ UNCHANGED <<index, files, response>>
    /\ UNCHANGED downloadFrame

NextDownload == Request \/ RequestRaises \/ Return

SpecDownload == InitDownload /\ [][NextDownload]_vars

----------------------------------------------------------------------------
(* WarsawAPI.__get_data_from_api *)

ErrorLimit == 50            \* if error_counter >= 50
ScheduleErrorStep == 25     \* error_counter += 25

\* What response["result"] may be: a list or string of length 0, a string
\* (the error message of the API), or a list with elements.
ResultKinds == {"empty", "string", "valid"}

\* (len(response["result"]) == 0) or (isinstance(response["result"], str))
invalid(r) == r \in {"empty", "string"}

\* The retries stop one error later (> for >=).
gives_up_gt(ec) == ec > ErrorLimit

\* if error_counter >= 50
gives_up(ec) == ec >= ErrorLimit

\* The loop body after the try statement, on the local response r and the
\* counter ec: the counter it leaves and where the iteration ends. Reading a
\* local that no assignment has bound raises UnboundLocalError.
check_response(r, ec, sched) ==
    IF r = "unbound" THEN [error_counter |-> ec, branch |-> "UnboundLocalError"]
    ELSE IF invalid(r)
    THEN LET e2 == ec + (IF sched THEN ScheduleErrorStep ELSE 1)
         IN  IF gives_up(e2)
             THEN IF sched /\ r = "empty"
                  THEN [error_counter |-> e2, branch |-> "empty_schedule"]
                  ELSE [error_counter |-> e2, branch |-> "ValueError"]
             ELSE [error_counter |-> e2, branch |-> "loop"]
    ELSE [error_counter |-> ec, branch |-> "returned"]

InitApi ==
    /\ is_schedule \in BOOLEAN
    /\ error_counter = 0
    /\ attempts = 0
    /\ api_local = "unbound"
    /\ http_raised = FALSE
    /\ http_errors = 0
    /\ branch = "loop"
    /\ PipelineIdle
    /\ CalcIdle
    /\ routes = {} /\ w_pc = <<>> /\ lines_dir = FALSE /\ line_files = <<>>

apiFrame ==
    <<pc, i, n, schedule, data_to_save, reads, file_to_save, bus, match, obs, k,
      m_sched, line, verdict, vel_args, velocity, cur_data, prev_data, speed_rows,
      now, api_response, response, index, files, returned, is_schedule, routes,
      w_pc, lines_dir, line_files>>

\* One iteration of "while True" in which requests.get(...).json() returns.
AttemptResponds ==
    /\ branch = "loop"
    /\ \E r \in ResultKinds :
        /\ api_local' = r
        /\ error_counter' = check_response(r, error_counter, is_schedule).error_counter
        /\ branch' = check_response(r, error_counter, is_schedule).branch
    /\ attempts' = attempts + 1
    /\ http_raised' = FALSE
    /\ UNCHANGED http_errors
    /\ UNCHANGED apiFrame

\* One iteration in which requests.get raises a RequestException: the
\* handler adds 1 to error_counter, the local response keeps what it held,
\* and the check below the try statement runs on it.
AttemptRaises ==
    /\ branch = "loop"
    /\ error_counter' =
         check_response(api_local, error_counter + 1, is_schedule).error_counter
    /\ branch' = check_response(api_local, error_counter + 1, is_schedule).branch
    /\ attempts' = attempts + 1
    /\ http_raised' = TRUE
    /\ http_errors' = http_errors + 1
    /\ UNCHANGED api_local
    /\ UNCHANGED apiFrame

NextApi == AttemptResponds \/ AttemptRaises

SpecApi == InitApi /\ [][NextApi]_vars

\* The loop has no blocking step but the request and the sleep of 0.5 s, so
\* an iteration that can run does run.
SpecApiLive == SpecApi /\ WF_vars(NextApi)

----------------------------------------------------------------------------
(* WarsawAPI.download_schedule and the workers running __get_schedule *)

BusLineMin == 99

\* if line > "999" or int(line) > 99
is_bus_line(l) == str_lt(Str999, l) \/ int_value(l) > BusLineMin

\* The lines routes.json may hold: a tram and three bus lines.
RouteLines == {L042, L180, L213, LN44}

\* The lines for which executor.submit(self.__get_schedule, line, path) runs.
Submitted(rt) == {l \in rt : is_bus_line(l)}

\* os.path.join(schedule_dir, f"{line}.json")
schedule_file(l) == <<l, ".json">>

\* The line_schedule a worker has collected for its line.
line_schedule(l) == [line |-> l]

\* The state after the loop of submits: one worker per bus line, each at the
\* start of __get_schedule; the directory bus_stops/lines exists or not.
InitSchedule ==
    /\ routes \in SUBSET RouteLines \ {{}}
    /\ w_pc = [l \in Submitted(routes) |-> "fetch"]
    /\ lines_dir \in BOOLEAN
    /\ line_files = <<>>
    /\ branch = "start"
    /\ PipelineIdle
    /\ CalcIdle
    /\ is_schedule = FALSE /\ error_counter = 0 /\ attempts = 0
    /\ api_local = "unbound" /\ http_raised = FALSE /\ http_errors = 0

scheduleFrame ==
    <<pc, i, n, schedule, data_to_save, reads, file_to_save, bus, branch, match,
      obs, k, m_sched, line, verdict, vel_args, velocity, cur_data, prev_data,
      speed_rows, now, api_response, response, index, files, returned,
      is_schedule, error_counter, attempts, api_local, http_raised, http_errors,
      routes>>

\* Lines 297-341: the worker reads routes.json and collects the schedule of
\* every stop of its line.
Fetch ==
    \E l \in DOMAIN w_pc :
        /\ w_pc[l] = "fetch"
        /\ w_pc' = [w_pc EXCEPT ![l] = "check"]
        /\ UNCHANGED <<lines_dir, line_files>>
        /\ UNCHANGED scheduleFrame

\* __get_data_from_api raises ValueError in the worker: its future holds the
\* exception and the worker is finished.
FetchRaises ==
    \E l \in DOMAIN w_pc :
        /\ w_pc[l] = "fetch"
        /\ w_pc' = [w_pc EXCEPT ![l] = "failed_api"]
        /\ UNCHANGED <<lines_dir, line_files>>
        /\ UNCHANGED scheduleFrame

\* if not os.path.exists(schedule_dir)
CheckDir ==
    \E l \in DOMAIN w_pc :
        /\ w_pc[l] = "check"
        /\ w_pc' = [w_pc EXCEPT ![l] = IF lines_dir THEN "write" ELSE "mkdir"]
        /\ UNCHANGED <<lines_dir, line_files>>
        /\ UNCHANGED scheduleFrame

\* os.makedirs(schedule_dir): FileExistsError when the directory exists by
\* now; the future holds the exception and the worker is finished.
MakeDirs ==
    \E l \in DOMAIN w_pc :
        /\ w_pc[l] = "mkdir"
        /\ IF lines_dir
           THEN /\ w_pc' = [w_pc EXCEPT ![l] = "failed_mkdir"]
                /\ UNCHANGED lines_dir
           ELSE /\ w_pc' = [w_pc EXCEPT ![l] = "write"]
                /\ lines_dir' = TRUE
        /\ UNCHANGED line_files
        /\ UNCHANGED scheduleFrame

\* with open(path, "w") as f: json.dump(line_schedule, f)
WriteFile ==
    \E l \in DOMAIN w_pc :
        /\ w_pc[l] = "write"
        /\ line_files' = [nm \in DOMAIN line_files \cup {schedule_file(l)} |->
                             IF nm = schedule_file(l) THEN line_schedule(l)
                             ELSE line_files[nm]]
        /\ w_pc' = [w_pc EXCEPT ![l] = "done"]
        /\ UNCHANGED lines_dir
        /\ UNCHANGED scheduleFrame

NextSchedule == Fetch \/ FetchRaises \/ CheckDir \/ MakeDirs \/ WriteFile

SpecSchedule == InitSchedule /\ [][NextSchedule]_vars

----------------------------------------------------------------------------
(* Reference notions of the claims about the Stop Matcher *)

MinOf(S) == CHOOSE x \in S : \A y \in S : x <= y

\* The stops of the run of the fix, in timetable order.
Entries == m_sched[bus.Lines][bus.Brigade]

EntryOf(stop) == CHOOSE j \in 1..Len(Entries) : Entries[j][1] = stop

MatcherReturned == branch = "returned" /\ bus_time_of(bus.Time) # NoTime

\* |s - f| in seconds, s the scheduled time with an hour of 24 or more
\* reduced by 24, f the time of day of the fix.
AbsDeviation(stop_time) ==
    abs(strptime_HMS(fix_stop_time(stop_time)) - strptime_HMS(bus_time_of(bus.Time)))

\* The minimum deviation over the scheduled times of entry j alone.
OwnMinDeviation(j) ==
    MinOf({AbsDeviation(Entries[j][2][t]) : t \in 1..Len(Entries[j][2])})

DistanceTo(stop) ==
    calculate_distance(bus.Lat, bus.Lon, BusStops[stop].szer_geo, BusStops[stop].dlug_geo)

\* Entry j is a stop of the registry, strictly within 0.01 km of the fix,
\* whose own minimum deviation is below 3600 seconds.
Qualifies(j) ==
    /\ Entries[j][1] \in DOMAIN BusStops
    /\ DistanceTo(Entries[j][1]) < DeltaDistInit
    /\ OwnMinDeviation(j) < MinTimeInit

----------------------------------------------------------------------------
(* Claims about the Stop Matcher, under SpecMatch *)

\* C2: the stop the matcher returns was accepted, so the minimum deviation
\* over that stop's own scheduled times is strictly below 3600 seconds; a
\* closer stop whose own minimum deviation is 3600 or more never displaces
\* an accepted stop.
C2_AcceptedOnlyBelowHour ==
    (MatcherReturned /\ match.closest_stop # None)
        => OwnMinDeviation(EntryOf(match.closest_stop)) < MinTimeInit

\* C3: the returned deviation is the minimum over the scheduled times of the
\* returned stop only, and the returned distance is the distance from the
\* fix to the returned stop.
C3_DeviationOfReturnedStop ==
    (MatcherReturned /\ match.closest_stop # None)
        => /\ match.min_time = OwnMinDeviation(EntryOf(match.closest_stop))
           /\ match.delta_dist = DistanceTo(match.closest_stop)

\* C4: the deviation the matcher computes is the absolute difference
\* |s - f|: for a run with a single stop, in the registry and within
\* 0.01 km, the min_time returned is the smaller of 3600 and the minimum of
\* |s - f| over the stop's scheduled times, whether the fix is earlier or
\* later than the scheduled time.
C4_AbsoluteDifference ==
    (/\ MatcherReturned
     /\ Len(Entries) = 1
     /\ Entries[1][1] \in DOMAIN BusStops
     /\ DistanceTo(Entries[1][1]) < DeltaDistInit)
        => match.min_time = min(MinTimeInit, OwnMinDeviation(1))

\* C8: the matcher returns no match exactly when no stop qualifies, and a
\* returned stop has no qualifying stop strictly closer to the fix.
C8_NoMatchIffNoneQualifies ==
    MatcherReturned
        => /\ match.closest_stop = None <=> ~(\E j \in 1..Len(Entries) : Qualifies(j))
           /\ match.closest_stop # None
                => ~(\E j \in 1..Len(Entries) :
                        /\ Qualifies(j)
                        /\ DistanceTo(Entries[j][1]) < DistanceTo(match.closest_stop))

\* C9: every match the matcher returns is strictly closer than 0.01 km; a
\* stop at exactly 0.01 km or farther is never returned.
C9_MatchWithinThreshold ==
    (branch = "returned" /\ match.closest_stop # None)
        => /\ match.delta_dist < DeltaDistInit
           /\ DistanceTo(match.closest_stop) < DeltaDistInit

\* C9 witness: a match was returned although a stop at exactly 0.01 km, with
\* a scheduled time within the hour, precedes it in the timetable.
C9_Witness ==
    /\ MatcherReturned
    /\ match.closest_stop # None
    /\ \E j \in 1..Len(Entries) :
        /\ j < EntryOf(match.closest_stop)
        /\ Entries[j][1] \in DOMAIN BusStops
        /\ DistanceTo(Entries[j][1]) = DeltaDistInit
        /\ OwnMinDeviation(j) < MinTimeInit

----------------------------------------------------------------------------
(* Claims about the Deviation Reducer, under SpecFold *)

\* The (bus_id, stop) pairs that have a record in a table.
Pairs(data) == UNION {{<<id, stop>> : stop \in DOMAIN data[id]} : id \in DOMAIN data}

PairOf(o) == <<o.bus_id, o.closest_stop>>

\* The observations folded so far.
Folded == {obs[j] : j \in 1..k}

\* C1: every pair that has received an observation has a record (one per
\* pair, never removed), no other pair has one, and the stored deviation is
\* the minimum deviation among the observations folded so far for the pair.
C1_MinimumPerPair ==
    /\ Pairs(data_to_save) = {PairOf(o) : o \in Folded}
    /\ \A o \in Folded :
        data_to_save[o.bus_id][o.closest_stop][1] =
            MinOf({q.time : q \in {r \in Folded : PairOf(r) = PairOf(o)}})

\* C1 witness: a pair has received a larger and then a smaller deviation,
\* and another pair has a record too.
C1_Witness ==
    /\ \E a, b \in 1..k :
        a < b /\ PairOf(obs[a]) = PairOf(obs[b]) /\ obs[b].time < obs[a].time
    /\ Cardinality(Pairs(data_to_save)) >= 2

\* The table after folding the observations of a sequence, in its order.
RECURSIVE FoldAll(_, _)
FoldAll(data, q) ==
    IF q = <<>> THEN data
    ELSE FoldAll(update_data_to_save(data, Head(q).bus_id, Head(q).closest_stop,
                                     Head(q).bus, Head(q).time, Head(q).delta_dist),
                 Tail(q))

\* The deviation a table retains for each pair.
Deviations(data) == [pr \in Pairs(data) |-> data[pr[1]][pr[2]][1]]

\* C6: once all the observations are folded, the deviation retained for
\* every pair is the one retained after folding the same observations in
\* any other order.
C6_OrderIndependent ==
    k = Len(obs)
        => \A f \in Permutations(1..Len(obs)) :
              Deviations(FoldAll(<<>>, [j \in 1..Len(obs) |-> obs[f[j]]]))
                  = Deviations(data_to_save)

\* C6 witness: 400 s and then 120 s were folded for the same pair.
C6_Witness ==
    /\ k = Len(obs)
    /\ k >= 2
    /\ PairOf(obs[1]) = PairOf(obs[2])
    /\ obs[1].time = 400
    /\ obs[2].time = 120
    /\ data_to_save[obs[1].bus_id][obs[1].closest_stop][1] = 120

\* C7: a reduce call whose deviation is greater than or equal to the stored
\* one leaves the record of its pair unchanged, and every reduce call leaves
\* the records of all other pairs as they were (none changed, removed or
\* created).
C7_Frame ==
    [][k' = k + 1 =>
        /\ (/\ PairOf(obs[k + 1]) \in Pairs(data_to_save)
            /\ obs[k + 1].time >=
                 data_to_save[obs[k + 1].bus_id][obs[k + 1].closest_stop][1])
              => data_to_save'[obs[k + 1].bus_id][obs[k + 1].closest_stop]
                   = data_to_save[obs[k + 1].bus_id][obs[k + 1].closest_stop]
        /\ Pairs(data_to_save') = Pairs(data_to_save) \cup {PairOf(obs[k + 1])}
        /\ \A pr \in Pairs(data_to_save) \ {PairOf(obs[k + 1])} :
              data_to_save'[pr[1]][pr[2]] = data_to_save[pr[1]][pr[2]]]_vars

\* C7 witness: the last observation folded had the stored deviation, another
\* distance and position, and the record kept the earlier one; another pair
\* has a record.
C7_Witness ==
    /\ k >= 2
    /\ \E a \in 1..(k - 1) :
        /\ PairOf(obs[a]) = PairOf(obs[k])
        /\ obs[a].time = obs[k].time
        /\ obs[a].bus # obs[k].bus
        /\ data_to_save[obs[k].bus_id][obs[k].closest_stop]
             = <<obs[a].time, obs[a].delta_dist, obs[a].bus.Lat, obs[a].bus.Lon>>
    /\ Cardinality(Pairs(data_to_save)) >= 2

----------------------------------------------------------------------------
(* Claim about the tram filter, under SpecTram *)

LexBelow999 == str_lt(line, Str999)

\* C10: a fix is excluded as a tram exactly when its line identifier is
\* lexicographically below "999" and its numeric value is below 100, and
\* every other fix is retained.
C10_ExcludedOrRetained ==
    verdict # "start"
        => IF LexBelow999 /\ int_ok(line) /\ int_value(line) < TramLimit
           THEN verdict = "skip"
           ELSE verdict = "keep"

----------------------------------------------------------------------------
(* Claim about the timetable cache, under Spec *)

\* C5: during one run the timetable file of each line is read at most once.
C5_ReadAtMostOnce == \A l \in DOMAIN reads : reads[l] <= 1

----------------------------------------------------------------------------
(* Claims about the failure semantics of prepare_data, under Spec *)

\* The step is one iteration of "for bus in data".
FixStep == n' = n + 1

\* The fix of the last iteration went through the tram filter and the
\* brigade lookup and was handed to the Stop Matcher.
ReachedMatcher == branch \in {"raise_time", "no_match", "reduced"}

\* C11: a fix with an unparseable timestamp that reaches the Stop Matcher
\* aborts the whole run, whether or not a stop of its run lies within
\* 0.01 km of the fix; it is never silently skipped.
C11_UnparseableAborts ==
    (ReachedMatcher /\ bus_time_of(bus.Time) = NoTime) => pc = "aborted"

\* C12: when the timetable file of the line of a non-tram fix is missing,
\* the run aborts at that fix, whether or not the brigade would have been
\* found: the table is left as it was, and once the run is aborted no later
\* fix or snapshot is processed and nothing is folded into the table.
C12_MissingFileAborts ==
    [][/\ (/\ FixStep
           /\ tram_filter(bus'.Lines) = "keep"
           /\ bus'.Lines \notin DOMAIN ScheduleFiles)
             => (pc' = "aborted" /\ data_to_save' = data_to_save)
       /\ pc # "aborted"]_vars

\* C12 witness: the run was aborted by a fix of line 213, which has no
\* timetable file, with a brigade no timetable has, while another fix of the
\* snapshot and another snapshot were still to be processed.
C12_Witness ==
    /\ pc = "aborted"
    /\ branch = "raise_open"
    /\ bus.Lines = L213
    /\ \A l \in DOMAIN ScheduleFiles : bus.Brigade \notin DOMAIN ScheduleFiles[l]
    /\ n < MaxFixes
    /\ i + 1 < MaxFiles

\* The fix is not a tram and its line has a timetable file.
HasTimetable(b) == tram_filter(b.Lines) = "keep" /\ b.Lines \in DOMAIN ScheduleFiles

\* The fix is skipped: it is a tram, or its brigade is absent from the
\* timetable of its line, or the Stop Matcher returns no match for it.
Skipped(b) ==
    \/ tram_filter(b.Lines) = "skip"
    \/ HasTimetable(b) /\ b.Brigade \notin DOMAIN ScheduleFiles[b.Lines]
    \/ /\ HasTimetable(b)
       /\ b.Brigade \in DOMAIN ScheduleFiles[b.Lines]
       /\ ~find_closest_stop(b, ScheduleFiles, BusStops).raised
       /\ find_closest_stop(b, ScheduleFiles, BusStops).closest_stop = None

\* C13: processing a fix that is excluded as a tram, whose brigade is absent
\* from the timetable of its line, or for which the Stop Matcher returns no
\* match leaves the table unchanged and does not stop the run; the table
\* changes only by the reducer, called with the match the Stop Matcher
\* returned for that fix.
C13_SkipFrame ==
    [][FixStep =>
        /\ Skipped(bus') => (data_to_save' = data_to_save /\ pc' = "file")
        /\ (data_to_save' # data_to_save \/ branch' = "reduced")
             => /\ ~Skipped(bus')
                /\ HasTimetable(bus')
                /\ bus'.Brigade \in DOMAIN ScheduleFiles[bus'.Lines]
                /\ match' = find_closest_stop(bus', ScheduleFiles, BusStops)
                /\ match'.closest_stop # None
                /\ data_to_save' =
                     update_data_to_save(data_to_save,
                         get_busID(bus'.VehicleNumber, bus'.Lines, bus'.Brigade),
                         match'.closest_stop, bus', match'.min_time,
                         match'.delta_dist)]_vars

\* C13 witness: with a record in the table, the last fix got no match from
\* the Stop Matcher and the run goes on.
C13_Witness ==
    /\ branch = "no_match"
    /\ pc = "file"
    /\ data_to_save # <<>>
    /\ bus_time_of(bus.Time) # NoTime

\* The records of a table as rows of the output file.
RowsOf(data) ==
    {<<pr[1][1], pr[1][2], pr[1][3], pr[2]>> \o data[pr[1]][pr[2]] : pr \in Pairs(data)}

\* C20: no data row is written before every snapshot has been processed: the
\* output holds the header alone until the run is done, so also after a fatal
\* error, and when the run is done it holds one row per record of the table.
C20_RowsOnlyAtEnd ==
    /\ file_to_save.header
    /\ pc # "done" => file_to_save.rows = {}
    /\ pc = "done" => file_to_save.rows = RowsOf(data_to_save)

\* C20 witness: a run that had records in its table was aborted by a fatal
\* error, and the output holds the header only.
C20_Witness ==
    /\ pc = "aborted"
    /\ data_to_save # <<>>
    /\ file_to_save = [header |-> TRUE, rows |-> {}]

----------------------------------------------------------------------------
(* Claim about stops missing from the registry, under SpecMatch *)

\* A timetable without the stops that are not in the registry.
RegisteredOnly(sched) ==
    [l \in DOMAIN sched |->
        [br \in DOMAIN sched[l] |->
            SelectSeq(sched[l][br], LAMBDA e : e[1] \in DOMAIN BusStops)]]

\* C14: a stop of the timetable that is missing from the registry is never
\* returned and never causes an error: the call ends as it ends on the
\* timetable without the stops that are missing from the registry, with the
\* same stop, distance and deviation.
C14_MissingStopSkipped ==
    branch # "start"
        => /\ match = find_closest_stop(bus, RegisteredOnly(m_sched), BusStops)
           /\ match.closest_stop \in DOMAIN BusStops \cup {None}

\* C14 witness: a stop was returned although a stop that is not in the
\* registry precedes it in the timetable.
C14_Witness ==
    /\ branch = "returned"
    /\ match.closest_stop # None
    /\ \E j \in 1..Len(Entries) :
        /\ j < EntryOf(match.closest_stop)
        /\ Entries[j][1] \notin DOMAIN BusStops

----------------------------------------------------------------------------
(* Claim about the fields of a record, under SpecFold *)

\* The record an observation writes.
RecordOf(o) == <<o.time, o.delta_dist, o.bus.Lat, o.bus.Lon>>

\* C15: every record of the table is the tuple (deviation, distance, fix
\* latitude, fix longitude) of one single observation folded for its pair.
C15_RecordOfOneObservation ==
    \A pr \in Pairs(data_to_save) :
        \E o \in Folded : PairOf(o) = pr /\ data_to_save[pr[1]][pr[2]] = RecordOf(o)

\* C15 witness: a record was overwritten by an observation with a smaller
\* deviation, another distance and another position, and holds the four
\* fields of that observation.
C15_Witness ==
    \E a, b \in 1..k :
        /\ a < b
        /\ PairOf(obs[a]) = PairOf(obs[b])
        /\ obs[b].time < obs[a].time
        /\ obs[b].bus # obs[a].bus
        /\ obs[b].delta_dist # obs[a].delta_dist
        /\ data_to_save[obs[b].bus_id][obs[b].closest_stop] = RecordOf(obs[b])

----------------------------------------------------------------------------
(* Claim about calculate_velocity, under SpecVelocity *)

\* Metres between the two fixes of the call.
ArgDistance ==
    calculate_distance(vel_args.lat1, vel_args.lon1, vel_args.lat2, vel_args.lon2)

\* The raw speed, distance in km over time in hours, is above 90 km/h.
RawAboveLimit ==
    /\ vel_args.time > 0
    /\ ArgDistance * SecondsPerHour > VelocityLimit * MetresPerKm * vel_args.time

\* The fraction is the raw speed.
IsRawSpeed(v) ==
    v[1] * MetresPerKm * vel_args.time = v[2] * ArgDistance * SecondsPerHour

\* C16: calculate_velocity returns 0 when the elapsed seconds is 0, 50 when
\* the raw speed exceeds 90, and the raw speed otherwise; its result never
\* exceeds 90 km/h.
C16_VelocityClamped ==
    branch = "returned"
        => /\ velocity[2] > 0
           /\ vel_args.time = 0 => velocity = <<0, 1>>
           /\ (vel_args.time # 0 /\ RawAboveLimit) => velocity = <<VelocityClamp, 1>>
           /\ (vel_args.time # 0 /\ ~RawAboveLimit) => IsRawSpeed(velocity)
           /\ velocity[1] <= VelocityLimit * velocity[2]

\* C16 witness: a call whose raw speed is 180 km/h (50 m in 1 s) returned 50.
C16_Witness ==
    /\ branch = "returned"
    /\ RawAboveLimit
    /\ ArgDistance = 50
    /\ vel_args.time = 1
    /\ velocity = <<VelocityClamp, 1>>

----------------------------------------------------------------------------
(* Claim about Velocity.__process_data, under SpecSpeed *)

InPrev(e) == e[1] \in DOMAIN prev_data

\* A timestamp of the entry, in data or in prev_data, does not parse.
BadTime(e) ==
    \/ strptime_YmdHMS(e[2].Time) = Raised
    \/ strptime_YmdHMS(prev_data[e[1]].Time) = Raised

\* The velocity computed between the fix of the entry and the previous fix
\* of its key.
VelocityOf(e) ==
    calculate_velocity(e[2].Lat, e[2].Lon, prev_data[e[1]].Lat, prev_data[e[1]].Lon,
        strptime_YmdHMS(e[2].Time) - strptime_YmdHMS(prev_data[e[1]].Time))

\* The key is in both snapshots and the velocity between its two fixes is
\* greater than 0.
Moved(e) == InPrev(e) /\ VelocityOf(e)[1] > 0

\* One row <<line, velocity, latitude, longitude>> for each entry that
\* moved, in the order of the entries.
MovedRows(q) ==
    LET sel == SelectSeq(q, Moved)
    IN  [x \in 1..Len(sel) |->
            <<sel[x][1][2], VelocityOf(sel[x]), sel[x][2].Lat, sel[x][2].Lon>>]

\* C17: a call of __process_data that returns has written one row for each
\* key that is in both snapshots with a velocity greater than 0 between its
\* two fixes, and no row for any other key; a call that a timestamp ends
\* (ValueError) has done so for the keys before the one with that timestamp.
C17_RowIffMoved ==
    /\ branch = "returned" => speed_rows = MovedRows(cur_data)
    /\ branch = "raised"
         => \E j \in 1..Len(cur_data) :
               /\ InPrev(cur_data[j])
               /\ BadTime(cur_data[j])
               /\ speed_rows = MovedRows(SubSeq(cur_data, 1, j - 1))

\* C17 witness: of two keys that are in both snapshots, the one that moved
\* got a row and the one that did not move got none.
C17_Witness ==
    /\ branch = "returned"
    /\ Len(cur_data) = 2
    /\ Len(speed_rows) = 1
    /\ \E j \in 1..2 :
        /\ InPrev(cur_data[j])
        /\ cur_data[j][2].Lat = prev_data[cur_data[j][1]].Lat
        /\ VelocityOf(cur_data[j]) = <<0, 1>>
    /\ \E j \in 1..2 : Moved(cur_data[j])

----------------------------------------------------------------------------
(* Claim about WarsawAPI.__validate_buses_data, under SpecValidate *)

\* Seconds from the timestamp of the fix to now.
Age(b) == strptime_YmdHMS(now) - strptime_YmdHMS(b.Time)

\* The timestamp parses and is neither more than TIME_DELTA seconds old nor
\* in the future, and the position is inside 20 < Lon < 22, 52 < Lat < 53.
ValidBus(b) ==
    /\ strptime_YmdHMS(b.Time) # Raised
    /\ Age(b) >= 0
    /\ Age(b) <= TIME_DELTA
    /\ LonMin < b.Lon /\ b.Lon < LonMax
    /\ LatMin < b.Lat /\ b.Lat < LatMax

\* C18: after __validate_buses_data every bus that remains has a timestamp
\* that parses, is at most TIME_DELTA seconds older than the current time and
\* is not in the future, and has 20 < Lon < 22 and 52 < Lat < 53; every bus
\* with a wrong time or location is removed, and no other.
C18_ValidatedBuses ==
    branch = "returned"
        => /\ \A j \in 1..Len(response) : ValidBus(response[j])
           /\ response = SelectSeq(api_response, ValidBus)

----------------------------------------------------------------------------
(* Claim about download_buses_location_by_time, under SpecDownload *)

\* C19: the value returned is the number of requests made, which is the
\* number of snapshot files written, and the files are named 0.json to
\* (N-1).json with no gaps.
C19_ReturnsRequestCount ==
    branch = "returned"
        => /\ returned = index
           /\ returned = Cardinality(DOMAIN files)
           /\ DOMAIN files = {file_name(j) : j \in 0..(returned - 1)}

----------------------------------------------------------------------------
(* Claims about WarsawAPI.__get_data_from_api *)

\* The most attempts a request makes when every response is invalid.
MaxAttempts == IF is_schedule THEN 2 ELSE ErrorLimit

\* While no requests.get has raised: the attempts are at most 50 (2 for a
\* schedule request) and the loop has ended once that many are made; a valid
\* response ends the call, returned on the attempt that received it; every
\* other end comes at the last attempt and is the empty schedule for a
\* schedule request whose last result is empty, ValueError otherwise.
AttemptsBounded ==
    http_errors = 0
        => /\ attempts <= MaxAttempts
           /\ branch = "loop" => attempts < MaxAttempts
           /\ branch = "loop" => (attempts = 0 \/ invalid(api_local))
           /\ branch = "returned" <=> api_local = "valid"
           /\ branch \in {"loop", "returned", "ValueError", "empty_schedule"}
           /\ branch \in {"ValueError", "empty_schedule"}
                => /\ attempts = MaxAttempts
                   /\ branch = "empty_schedule" <=> (is_schedule /\ api_local = "empty")

\* C21 (under SpecApiLive): __get_data_from_api never retries forever: when
\* every response is invalid it ends after at most 50 attempts (2 for a
\* schedule request) with ValueError, or with {} for a schedule request
\* whose result is empty; a valid response is returned on the attempt that
\* receives it; and every call ends.
C21_BoundedRetries == []AttemptsBounded /\ <>(branch # "loop")

\* C21 witness: an ordinary request got 50 invalid responses and ended with
\* ValueError.
C21_Witness ==
    /\ branch = "ValueError"
    /\ ~is_schedule
    /\ http_errors = 0
    /\ attempts = ErrorLimit
    /\ error_counter = ErrorLimit

\* C22 (under SpecApi): an attempt whose HTTP call raises a
\* RequestException, the first one included, adds exactly one error and the
\* request is retried (or, the limit reached, ends with ValueError); the
\* call never ends with another error.
C22_FailureCountedOnce ==
    [][(attempts' = attempts + 1 /\ http_raised')
         => /\ error_counter' = error_counter + 1
            /\ \/ branch' = "loop"
               \/ branch' = "ValueError" /\ error_counter' >= ErrorLimit]_vars

----------------------------------------------------------------------------
(* Claim about download_schedule, under SpecSchedule *)

\* concurrent.futures.wait(futures) has returned: every worker is finished.
AllFinished ==
    \A l \in DOMAIN w_pc : w_pc[l] \in {"done", "failed_api", "failed_mkdir"}

\* C23: under every interleaving of the workers each file of the lines
\* directory was written by the worker of its own line, and once all workers
\* have finished a timetable file exists for every bus line of routes.json
\* whose schedule was collected: no worker loses its result because of
\* another worker.
C23_NoResultLost ==
    /\ \A nm \in DOMAIN line_files :
          \E l \in DOMAIN w_pc :
              /\ nm = schedule_file(l)
              /\ line_files[nm] = line_schedule(l)
              /\ w_pc[l] = "done"
    /\ AllFinished
         => \A l \in Submitted(routes) :
               w_pc[l] # "failed_api" => schedule_file(l) \in DOMAIN line_files

====
